---- MODULE Spec2Model ----
(***************************************************************************)
(* Shadow-memory poisoning of the sparse-table AddressSanitizer runtime:   *)
(* FastPoisonShadow and FastPoisonShadowPartialRightRedzone of             *)
(* compiler-rt/lib/asan/asan_poisoning.h, with the poisoning toggle.       *)
(*                                                                         *)
(* Shadow memory is a function from shadow addresses to bytes.  Two        *)
(* specifications share the actions: Spec runs sequences of calls on       *)
(* short ranges; SpecLarge runs one FastPoisonShadow call on long ranges,  *)
(* where the doubling loop takes several iterations.  The loop of          *)
(* FastPoisonShadow is one action per iteration.                           *)
(***************************************************************************)
EXTENDS Integers, Sequences, FiniteSets, TLC

\* ---------------------------------------------------------------- bounds
\* Shadow-writing calls in one behaviour of Spec.
MaxCalls == 1
\* Granule index of the first application address handed to a call: 1..MaxBegGranule.
MaxBegGranule == 1
\* Granules in a FastPoisonShadow range, Spec.
MaxGranules == 9
\* Granules in a FastPoisonShadow range, SpecLarge.
MaxLargeGranules == 33
\* Whole granules in the live size handed to the redzone encoder.
MaxLiveGranules == 1
\* Whole granules in the redzone size handed to the redzone encoder.
MaxRedzoneGranules == 1

\* u8 arguments tried: zero, the ends of the remapped band 1..7, the ends of
\* the pass-through band 8..255.
TagSet == {0, 1, 7, 8, 255}
\* Byte every shadow cell holds before the first call.
InitBytes == {0, 171}
\* u8 tags handed to the redzone encoder, which stores them as they are.
RedzoneTags == {7, 255}

VARIABLES
  shadow,                   \* shadow memory: shadow address -> u8
  can_poison_memory,        \* the poisoning toggle
  SANITIZER_DEBUG,          \* build: DCHECK is compiled in
  ASAN_SHADOW_GRANULARITY,  \* build: bytes per shadow byte
  poison_partial,           \* flags()->poison_partial
  calls,                    \* shadow-writing calls made so far
  last,                     \* the last shadow-writing call and its arguments
  aborted,                  \* a DCHECK failed: the process died
  pc,                       \* "idle", or "loop" inside FastPoisonShadow's for loop
  i,                        \* the for loop's i
  shadow_beg,               \* FastPoisonShadow's local
  shadow_end,               \* FastPoisonShadow's local
  wcount,                   \* history: stores to each shadow byte in the current call
  fills                     \* history: memset calls in the current call

vars == <<shadow, can_poison_memory, SANITIZER_DEBUG, ASAN_SHADOW_GRANULARITY,
          poison_partial, calls, last, aborted, pc, i, shadow_beg, shadow_end,
          wcount, fills>>

\* ------------------------------------------------------- address mapping
\* Scaled-down shadow offset; large enough that no uptr expression of the
\* model goes below zero.
ASAN_SHADOW_OFFSET == 64

MEM_TO_SHADOW(mem) == (mem \div ASAN_SHADOW_GRANULARITY) + ASAN_SHADOW_OFFSET

\* Shadow addresses of granules 0..n.
ShadowRegion(n) == ASAN_SHADOW_OFFSET .. (ASAN_SHADOW_OFFSET + n)

\* 1 << k
Shl1(k) == 2 ^ k

\* ------------------------------------------------------ frame of a call
\* The memory and the locals a call works on.
Frame == [sh |-> shadow, wc |-> wcount, fills |-> fills, pc |-> pc, i |-> i,
          beg |-> shadow_beg, end |-> shadow_end]

SetFrame(f) ==
  /\ shadow' = f.sh
  /\ wcount' = f.wc
  /\ fills' = f.fills
  /\ pc' = f.pc
  /\ i' = f.i
  /\ shadow_beg' = f.beg
  /\ shadow_end' = f.end

\* REAL(memset)(dst, c, n): c is converted to unsigned char.
MemsetAdd(f, dst, c, n) ==
  [f EXCEPT !.sh = [x \in DOMAIN f.sh |->
                      IF dst <= x /\ x < dst + n THEN (f.sh[x] + c) % 256 ELSE f.sh[x]],
            !.wc = [x \in DOMAIN f.wc |->
                      IF dst <= x /\ x < dst + n THEN f.wc[x] + 1 ELSE f.wc[x]],
            !.fills = f.fills + 1]

Memset(f, dst, c, n) ==
  [f EXCEPT !.sh = [x \in DOMAIN f.sh |->
                      IF dst <= x /\ x < dst + n THEN c % 256 ELSE f.sh[x]],
            !.wc = [x \in DOMAIN f.wc |->
                      IF dst <= x /\ x < dst + n THEN f.wc[x] + 1 ELSE f.wc[x]],
            !.fills = f.fills + 1]

\* *addr = c, through an unsigned char pointer.
Store(f, addr, c) ==
  [f EXCEPT !.sh = [x \in DOMAIN f.sh |-> IF x = addr THEN c % 256 ELSE f.sh[x]],
            !.wc = [x \in DOMAIN f.wc |-> IF x = addr THEN f.wc[x] + 1 ELSE f.wc[x]]]

\* ------------------------------------------------------ FastPoisonShadow
\* DCHECK(!value || CanPoisonMemory()): the condition.
PoisonCheckNoNegation(value) == value # 0 \/ can_poison_memory

PoisonCheck(value) == value = 0 \/ can_poison_memory

\* DCHECK(c): fatal when false in a debug build, compiled out otherwise.
DCheckFails(c) == SANITIZER_DEBUG /\ ~c

ShadowEndOffByOne(aligned_beg, aligned_size) ==
  MEM_TO_SHADOW(aligned_beg + aligned_size) + 1

ShadowEnd(aligned_beg, aligned_size) ==
  MEM_TO_SHADOW(aligned_beg + aligned_size - ASAN_SHADOW_GRANULARITY) + 1

\* if (value <= 7) value = 72 - value;
SparseValueLt(value) == IF value < 7 THEN (72 - value) % 256 ELSE value

SparseValue(value) == IF value <= 7 THEN (72 - value) % 256 ELSE value

\* switch (N): the bytes stored at p - Len .. p - 1, low address first.
TailPatternSix(N) ==
  CASE N >= 6 -> <<62, 62, 62, 63, 63, 64>>
    [] N = 5 -> <<62, 62, 63, 63, 64>>
    [] N = 4 -> <<62, 63, 63, 64>>
    [] N = 3 -> <<63, 63, 64>>
    [] N = 2 -> <<63, 64>>
    [] N = 1 -> <<64>>
    [] N = 0 -> <<>>

TailPatternPrefix(N) ==
  IF N >= 7 THEN <<62, 62, 62, 62, 63, 63, 64>>
  ELSE SubSeq(<<62, 62, 62, 62, 63, 63, 64>>, 1, N)

TailPattern(N) ==
  CASE N >= 7 -> <<62, 62, 62, 62, 63, 63, 64>>
    [] N = 6 -> <<62, 62, 62, 63, 63, 64>>
    [] N = 5 -> <<62, 62, 63, 63, 64>>
    [] N = 4 -> <<62, 63, 63, 64>>
    [] N = 3 -> <<63, 63, 64>>
    [] N = 2 -> <<63, 64>>
    [] N = 1 -> <<64>>
    [] N = 0 -> <<>>

\* The stores of one case of the switch, in the order the code makes them.
RECURSIVE StoreSeq(_, _, _, _)
StoreSeq(f, p, pat, k) ==
  IF k > Len(pat) THEN f
  ELSE StoreSeq(Store(f, p - (Len(pat) - k + 1), pat[k]), p, pat, k + 1)

\* 64 - i, the class of block i.
BlockClassUp(blk) == 58 + blk

BlockClass(blk) == 64 - blk

\* One iteration of for (uptr i = 3; ; ++i).
LoopStepNoFinal(f) ==
  LET bBegin == f.end - Shl1(f.i + 1) + 1 IN
  IF bBegin <= f.beg
  THEN [f EXCEPT !.pc = "idle"]
  ELSE [Memset(f, bBegin, BlockClass(f.i), Shl1(f.i)) EXCEPT !.i = f.i + 1]

LoopStepLt(f) ==
  LET bBegin == f.end - Shl1(f.i + 1) + 1 IN
  IF bBegin < f.beg
  THEN LET bEnd == f.end - Shl1(f.i) + 1 IN
       [Memset(f, f.beg, BlockClass(f.i), bEnd - f.beg) EXCEPT !.pc = "idle"]
  ELSE [Memset(f, bBegin, BlockClass(f.i), Shl1(f.i)) EXCEPT !.i = f.i + 1]

LoopStep(f) ==
  LET bBegin == f.end - Shl1(f.i + 1) + 1 IN
  IF bBegin <= f.beg
  THEN LET bEnd == f.end - Shl1(f.i) + 1 IN
       [Memset(f, f.beg, BlockClass(f.i), bEnd - f.beg) EXCEPT !.pc = "idle"]
  ELSE [Memset(f, bBegin, BlockClass(f.i), Shl1(f.i)) EXCEPT !.i = f.i + 1]

\* The function from its entry up to the for loop (or to its return).
FastPoisonShadowEntry(sh, aligned_beg, aligned_size, value) ==
  LET sb == MEM_TO_SHADOW(aligned_beg)
      se == ShadowEnd(aligned_beg, aligned_size)
      f0 == [sh |-> sh, wc |-> [x \in DOMAIN sh |-> 0], fills |-> 0,
             pc |-> "idle", i |-> 0, beg |-> sb, end |-> se]
      N == se - sb
  IN IF value # 0
     THEN Memset(f0, sb, SparseValue(value), se - sb)
     ELSE LET f1 == StoreSeq(f0, se, TailPattern(N), 1) IN
          IF N >= 8 THEN [f1 EXCEPT !.pc = "loop", !.i = 3] ELSE f1

\* The for loop run to its break.
RECURSIVE RunLoop(_)
RunLoop(f) == IF f.pc = "loop" THEN RunLoop(LoopStep(f)) ELSE f

\* The whole function, as one call.
FastPoisonShadowRun(sh, aligned_beg, aligned_size, value) ==
  RunLoop(FastPoisonShadowEntry(sh, aligned_beg, aligned_size, value))

\* ------------------------------------- FastPoisonShadowPartialRightRedzone
\* The byte the loop body stores for the granule at offset off.
RedzoneByteLeading(off, size, value) ==
  IF off + ASAN_SHADOW_GRANULARITY <= size THEN 0
  ELSE IF off >= size
       THEN (IF ASAN_SHADOW_GRANULARITY = 128 THEN 255 ELSE value)
       ELSE IF poison_partial THEN (size - off) % 256 ELSE 0

RedzoneByte(off, size, value) ==
  IF off + ASAN_SHADOW_GRANULARITY <= size THEN 0
  ELSE IF off >= size
       THEN (IF ASAN_SHADOW_GRANULARITY = 128 THEN 255 ELSE value)
       ELSE IF poison_partial
            THEN (ASAN_SHADOW_GRANULARITY - (size % ASAN_SHADOW_GRANULARITY)) % 256
            ELSE 0

\* for (uptr i = 0; i < redzone_size; i += ASAN_SHADOW_GRANULARITY, shadow++)
RECURSIVE RedzoneLoop(_, _, _, _, _, _)
RedzoneLoop(f, ptr, off, size, redzone_size, value) ==
  IF ~(off < redzone_size) THEN f
  ELSE RedzoneLoop(Store(f, ptr, RedzoneByte(off, size, value)), ptr + 1,
                   off + ASAN_SHADOW_GRANULARITY, size, redzone_size, value)

FastPoisonShadowPartialRightRedzoneRun(sh, aligned_addr, size, redzone_size, value) ==
  LET f0 == [sh |-> sh, wc |-> [x \in DOMAIN sh |-> 0], fills |-> 0,
             pc |-> "idle", i |-> 0, beg |-> shadow_beg, end |-> shadow_end]
  IN RedzoneLoop(f0, MEM_TO_SHADOW(aligned_addr), 0, size, redzone_size, value)

\* ------------------------------------------------------------------ Init
NoCall == [op |-> "none", beg |-> 0, size |-> 0, redzone_size |-> 0, value |-> 0]

InitRegion(n) ==
  /\ SANITIZER_DEBUG \in BOOLEAN
  /\ ASAN_SHADOW_GRANULARITY \in {8, 128}
  /\ poison_partial \in BOOLEAN
  /\ \E b \in InitBytes : shadow = [x \in ShadowRegion(n) |-> b]
  /\ wcount = [x \in ShadowRegion(n) |-> 0]
  /\ can_poison_memory = TRUE
  /\ calls = 0
  /\ last = NoCall
  /\ aborted = FALSE
  /\ pc = "idle"
  /\ i = 0
  /\ shadow_beg = ASAN_SHADOW_OFFSET
  /\ shadow_end = ASAN_SHADOW_OFFSET
  /\ fills = 0

\* Granules the calls of Spec can reach, and one more above them.
SmallGranules ==
  MaxBegGranule
  + (IF MaxGranules > MaxRedzoneGranules + 1 THEN MaxGranules ELSE MaxRedzoneGranules + 1)
  + 1

LargeGranules == MaxBegGranule + MaxLargeGranules + 1

Init == InitRegion(SmallGranules)

InitLarge == InitRegion(LargeGranules)

\* --------------------------------------------------------------- actions
SetCanPoisonMemory ==
  /\ pc = "idle"
  /\ ~aborted
  /\ \E value \in BOOLEAN : can_poison_memory' = value
  /\ UNCHANGED <<shadow, SANITIZER_DEBUG, ASAN_SHADOW_GRANULARITY, poison_partial,
                 calls, last, aborted, pc, i, shadow_beg, shadow_end, wcount, fills>>

\* A call of FastPoisonShadow on at most maxN granules, up to its for loop.
FastPoisonShadowCall(maxN) ==
  /\ pc = "idle"
  /\ ~aborted
  /\ \E g \in 1..MaxBegGranule, n \in 0..maxN, value \in TagSet :
       LET aligned_beg == g * ASAN_SHADOW_GRANULARITY
           aligned_size == n * ASAN_SHADOW_GRANULARITY
       IN /\ last' = [op |-> "FastPoisonShadow", beg |-> aligned_beg,
                      size |-> aligned_size, redzone_size |-> 0, value |-> value]
          /\ IF DCheckFails(PoisonCheck(value))
             THEN /\ aborted' = TRUE
                  /\ UNCHANGED <<shadow, pc, i, shadow_beg, shadow_end, wcount, fills>>
             ELSE /\ aborted' = aborted
                  /\ SetFrame(FastPoisonShadowEntry(shadow, aligned_beg, aligned_size, value))
  /\ calls' = calls + 1
  /\ UNCHANGED <<can_poison_memory, SANITIZER_DEBUG, ASAN_SHADOW_GRANULARITY,
                 poison_partial>>

FastPoisonShadow ==
  /\ calls < MaxCalls
  /\ FastPoisonShadowCall(MaxGranules)

FastPoisonShadowLarge ==
  /\ calls = 0
  /\ FastPoisonShadowCall(MaxLargeGranules)

FastPoisonShadowLoop ==
  /\ pc = "loop"
  /\ SetFrame(LoopStep(Frame))
  /\ UNCHANGED <<can_poison_memory, SANITIZER_DEBUG, ASAN_SHADOW_GRANULARITY,
                 poison_partial, calls, last, aborted>>

\* Byte counts tried: whole granules, and granules plus a few odd bytes.
LiveSizes ==
  {k * ASAN_SHADOW_GRANULARITY + r :
     k \in 0..MaxLiveGranules, r \in {0, 5}}

RedzoneSizes ==
  {k * ASAN_SHADOW_GRANULARITY + r : k \in 0..MaxRedzoneGranules, r \in {0, 1}}

FastPoisonShadowPartialRightRedzone ==
  /\ pc = "idle"
  /\ ~aborted
  /\ calls < MaxCalls
  /\ \E g \in 1..MaxBegGranule, size \in LiveSizes, redzone_size \in RedzoneSizes,
        value \in RedzoneTags :
       LET aligned_addr == g * ASAN_SHADOW_GRANULARITY
       IN /\ last' = [op |-> "FastPoisonShadowPartialRightRedzone", beg |-> aligned_addr,
                      size |-> size, redzone_size |-> redzone_size, value |-> value]
          /\ IF DCheckFails(can_poison_memory)
             THEN /\ aborted' = TRUE
                  /\ UNCHANGED <<shadow, pc, i, shadow_beg, shadow_end, wcount, fills>>
             ELSE /\ aborted' = aborted
                  /\ SetFrame(FastPoisonShadowPartialRightRedzoneRun(
                       shadow, aligned_addr, size, redzone_size, value))
  /\ calls' = calls + 1
  /\ UNCHANGED <<can_poison_memory, SANITIZER_DEBUG, ASAN_SHADOW_GRANULARITY,
                 poison_partial>>

Next ==
  \/ SetCanPoisonMemory
  \/ FastPoisonShadow
  \/ FastPoisonShadowLoop
  \/ FastPoisonShadowPartialRightRedzone

Spec == Init /\ [][Next]_vars

NextLarge ==
  \/ SetCanPoisonMemory
  \/ FastPoisonShadowLarge
  \/ FastPoisonShadowLoop

SpecLarge == InitLarge /\ [][NextLarge]_vars

\* The for loop is straight-line code of one thread: once entered it runs on.
SpecLargeLive == InitLarge /\ [][NextLarge]_vars /\ WF_vars(FastPoisonShadowLoop)

\* ------------------------------------------------------------ properties
\* The call named op has returned (its DCHECK passed and its loop is over).
Returned(op) == pc = "idle" /\ ~aborted /\ last.op = op

\* The shadow bytes of the last call's range: SBeg .. SEnd - 1.
SBeg == MEM_TO_SHADOW(last.beg)

NGran == last.size \div ASAN_SHADOW_GRANULARITY

SEnd == SBeg + NGran

RECURSIVE Log2(_)
Log2(n) == IF n <= 1 THEN 0 ELSE 1 + Log2(n \div 2)

\* C1: after FastPoisonShadow with a nonzero tag, every covered shadow byte
\* holds 72 - tag when tag is in 1..7 and tag itself when tag is in 8..255.
C1_UniformFill ==
  (Returned("FastPoisonShadow") /\ last.value # 0) =>
    \A x \in SBeg..(SEnd - 1) :
      shadow[x] = (IF last.value \in 1..7 THEN 72 - last.value ELSE last.value)

C1_Witness ==
  /\ Returned("FastPoisonShadow")
  /\ last.value = 7
  /\ NGran >= 2
  /\ \A x \in SBeg..(SEnd - 1) : shadow[x] = 65

\* C2: after FastPoisonShadow with tag 0 on N >= 8 granules, every covered
\* byte at distance d >= 8 from the exclusive shadow end holds 64 - i for the
\* i with 2^i <= d < 2^(i+1); the last, clipped block included.
C2_DoublingBlocks ==
  (Returned("FastPoisonShadow") /\ last.value = 0 /\ NGran >= 8) =>
    \A x \in SBeg..(SEnd - 1) :
      (SEnd - x >= 8) => shadow[x] = 64 - Log2(SEnd - x)

C2_Witness ==
  /\ Returned("FastPoisonShadow")
  /\ last.value = 0
  /\ NGran = 33
  /\ shadow[SBeg] = 59
  /\ shadow[SBeg + 2] = 60

\* C3, as stated: after FastPoisonShadow with tag 0 on at least 7 granules,
\* the last 7 shadow bytes, low address first, are 62,62,62,63,63,64.
C3_TailAsStated ==
  (Returned("FastPoisonShadow") /\ last.value = 0 /\ NGran >= 7) =>
    [k \in 1..7 |-> shadow[SEnd - 8 + k]] = <<62, 62, 62, 63, 63, 64>>

\* C3, amended: after FastPoisonShadow with tag 0 on at least 7 granules, the
\* last 7 shadow bytes, low address first, are 62,62,62,62,63,63,64, whatever
\* the size of the range.
C3_TailSeven ==
  (Returned("FastPoisonShadow") /\ last.value = 0 /\ NGran >= 7) =>
    [k \in 1..7 |-> shadow[SEnd - 8 + k]] = <<62, 62, 62, 62, 63, 63, 64>>

C3_Witness ==
  /\ Returned("FastPoisonShadow")
  /\ last.value = 0
  /\ NGran = 20
  /\ shadow[SEnd - 7] = 62
  /\ shadow[SEnd - 1] = 64

\* C4: after FastPoisonShadow with tag 0 on N granules, 1 <= N < 7, the N
\* covered bytes are the last N of 62,62,62,63,63,64 and the doubling loop
\* has not run: no memset was made and the loop was never entered.
C4_ShortTail ==
  (Returned("FastPoisonShadow") /\ last.value = 0 /\ NGran >= 1 /\ NGran < 7) =>
    /\ [k \in 1..NGran |-> shadow[SBeg + k - 1]]
         = SubSeq(<<62, 62, 62, 63, 63, 64>>, 6 - NGran + 1, 6)
    /\ fills = 0
    /\ i = 0

C4_Witness ==
  /\ Returned("FastPoisonShadow")
  /\ last.value = 0
  /\ NGran = 3
  /\ shadow[SBeg] = 63
  /\ shadow[SBeg + 1] = 63
  /\ shadow[SBeg + 2] = 64

\* C5: after FastPoisonShadowPartialRightRedzone, for every granule offset
\* off < redzone_size the granule's shadow byte is 0 when off + G <= size; the
\* tag (0xff when G = 128) when off >= size; and for the straddling granule
\* G - (size mod G) when poison_partial is on and 0 when it is off.
C5_RedzoneBytes ==
  Returned("FastPoisonShadowPartialRightRedzone") =>
    \A k \in 0..(MaxRedzoneGranules + 1) :
      LET off == k * ASAN_SHADOW_GRANULARITY IN
      (off < last.redzone_size) =>
        shadow[SBeg + k] =
          (IF off + ASAN_SHADOW_GRANULARITY <= last.size THEN 0
           ELSE IF off >= last.size
                THEN (IF ASAN_SHADOW_GRANULARITY = 128 THEN 255 ELSE last.value)
                ELSE IF poison_partial
                     THEN ASAN_SHADOW_GRANULARITY - (last.size % ASAN_SHADOW_GRANULARITY)
                     ELSE 0)

C5_Witness ==
  /\ Returned("FastPoisonShadowPartialRightRedzone")
  /\ ASAN_SHADOW_GRANULARITY = 8
  /\ poison_partial
  /\ last.size = 5
  /\ last.redzone_size = 9
  /\ last.value = 7
  /\ shadow[SBeg] = 3
  /\ shadow[SBeg + 1] = 7

C7_Monotone ==
  (Returned("FastPoisonShadow") /\ last.value = 0) =>
    \A x, y \in SBeg..(SEnd - 1) : (x < y) => shadow[x] <= shadow[y]

C7_Witness ==
  /\ Returned("FastPoisonShadow")
  /\ last.value = 0
  /\ NGran = 32
  /\ shadow[SBeg] = 59
  /\ shadow[SBeg + 1] = 60
  /\ shadow[SEnd - 1] = 64

\* A call the toggle guards: FastPoisonShadow with a nonzero tag, or the
\* redzone encoder.
GuardedCall(c) ==
  \/ c.op = "FastPoisonShadow" /\ c.value # 0
  \/ c.op = "FastPoisonShadowPartialRightRedzone"

\* C8: in a debug build, a guarded call changes shadow bytes only when the
\* toggle is true; made while the toggle is false it aborts with no shadow
\* byte written; FastPoisonShadow with tag 0 never aborts.
C8_ToggleGuard ==
  [][SANITIZER_DEBUG =>
       /\ (GuardedCall(last') /\ shadow' # shadow) => can_poison_memory
       /\ (calls' = calls + 1 /\ GuardedCall(last') /\ ~can_poison_memory) =>
            (aborted' /\ shadow' = shadow)
       /\ (calls' = calls + 1 /\ last'.op = "FastPoisonShadow" /\ last'.value = 0) =>
            ~aborted']_vars

C8_Witness ==
  /\ SANITIZER_DEBUG
  /\ aborted
  /\ ~can_poison_memory
  /\ last.op = "FastPoisonShadow"
  /\ last.value = 8
  /\ NGran = 2
  /\ shadow[SBeg] # 8

\* C9: once FastPoisonShadow has returned, the same call made again leaves
\* every shadow byte as it is.
C9_Idempotent ==
  Returned("FastPoisonShadow") =>
    FastPoisonShadowRun(shadow, last.beg, last.size, last.value).sh = shadow

C9_Witness ==
  /\ Returned("FastPoisonShadow")
  /\ last.value = 0
  /\ NGran = 9
  /\ shadow[SBeg] = 61
  /\ shadow[SEnd - 1] = 64

\* C10: the doubling loop, once entered, ends; and FastPoisonShadow with
\* tag 0 on N >= 8 granules returns after floor(log2(N)) - 2 memsets, with
\* every covered shadow byte stored exactly once and no other byte stored.
C10_LoopEnds ==
  /\ (pc = "loop") ~> (pc = "idle")
  /\ []((Returned("FastPoisonShadow") /\ last.value = 0 /\ NGran >= 8) =>
          /\ fills = Log2(NGran) - 2
          /\ \A x \in DOMAIN shadow :
               wcount[x] = (IF SBeg <= x /\ x < SEnd THEN 1 ELSE 0))

C10_Witness ==
  /\ Returned("FastPoisonShadow")
  /\ last.value = 0
  /\ NGran = 32
  /\ fills = 3
  /\ wcount[SBeg] = 1

====
